---- MODULE Spec2Model ----
(***************************************************************************)
(* A model of the limit order book and matching engine:                    *)
(*   ObjectPool<Order>  (include/ObjectPool.h)                             *)
(*   Order, Trade       (include/Order.h, include/ObjectPool.h)            *)
(*   PriceLevel, OrderBook (include/OrderBook.h, src/OrderBook.cpp)        *)
(*   MatchingEngine     (include/MatchingEngine.h, src/MatchingEngine.cpp) *)
(*                                                                         *)
(* An Order* is modelled by the index of its pool slot.  Each engine call  *)
(* (submitLimit, submitMarket, cancel) is one atomic action.               *)
(***************************************************************************)
EXTENDS Integers, Sequences, FiniteSets, TLC

\* ------------------------------------------------------------------------
\* Bounds of the model
\* ------------------------------------------------------------------------
PoolCapacity == 3
MaxPrice == 2
MaxId == 2
QuantityBits == 2
MaxOrders == 3

\* Quantity is uint32_t: arithmetic on it is modulo 2^w (w scaled down).
QuantityMod == 2 ^ QuantityBits
Prices == 1 .. MaxPrice
OrderIds == 1 .. MaxId
\* submitted quantities: zero, one and the largest Quantity
Quantities == {0, 1, QuantityMod - 1}
\* the poolSize given to the MatchingEngine constructor
PoolSizes == 1 .. PoolCapacity
Sides == {"Buy", "Sell"}

VARIABLES
    storage,        \* ObjectPool::storage_   : slot index -> Order
    freeSlots,      \* ObjectPool::freeSlots_ : stack of free indices (back = top)
    size_,          \* ObjectPool::size_
    capacity_,      \* ObjectPool::capacity_
    bids_,          \* OrderBook::bids_       : price -> PriceLevel
    asks_,          \* OrderBook::asks_       : price -> PriceLevel
    orderLookup_,   \* OrderBook::orderLookup_: id -> Order*
    tradeCount_,    \* MatchingEngine::tradeCount_
    orderCount_,    \* MatchingEngine::orderCount_
    clock,          \* the steady clock read by now(), as a logical tick
    lastCall        \* the last engine call: its arguments and what it returned

vars == <<storage, freeSlots, size_, capacity_, bids_, asks_, orderLookup_,
          tradeCount_, orderCount_, clock, lastCall>>

\* ------------------------------------------------------------------------
\* Helpers
\* ------------------------------------------------------------------------
Min(a, b) == IF a < b THEN a ELSE b

MinOf(S) == CHOOSE x \in S : \A y \in S : x <= y

MaxOf(S) == CHOOSE x \in S : \A y \in S : x >= y

\* uint32_t addition and subtraction
AddQ(a, b) == (a + b) % QuantityMod

SubQ(a, b) == (a + QuantityMod - b) % QuantityMod

\* std::map::erase(key) / std::unordered_map::erase(key)
MapErase(m, k) == [x \in (DOMAIN m) \ {k} |-> m[x]]

\* std::map::emplace / operator[] assignment
MapPut(m, k, v) == [x \in (DOMAIN m) \cup {k} |-> IF x = k THEN v ELSE m[x]]

EmptyMap == [x \in {} |-> 0]

ListErasePopFront(s, ptr) == Tail(s)

\* std::list::erase(iterator): the node holding this Order* is unlinked
ListErase(s, ptr) == SelectSeq(s, LAMBDA x : x # ptr)

RECURSIVE SumSeq(_)
SumSeq(s) == IF s = <<>> THEN 0 ELSE Head(s) + SumSeq(Tail(s))

\* ------------------------------------------------------------------------
\* Order (include/Order.h)
\* ------------------------------------------------------------------------
\* the content of a slot that holds no live object
NoOrder == [id |-> 0, side |-> "Buy", type |-> "None", price |-> 0,
            quantity |-> 0, remaining |-> 0, timestamp |-> 0]

Order(id, side, type, price, quantity, ts) ==
    [id |-> id, side |-> side, type |-> type, price |-> price,
     quantity |-> quantity, remaining |-> quantity, timestamp |-> ts]

isFilled(o) == o.remaining = 0

fill(o, qty) ==
    LET filled == Min(qty, o.remaining)
    IN  [o EXCEPT !.remaining = SubQ(o.remaining, filled)]

\* ------------------------------------------------------------------------
\* Trade (Trade.h)
\* ------------------------------------------------------------------------
TradeSwapped(buyId, sellId, price, qty) ==
    [buyOrderId |-> sellId, sellOrderId |-> buyId, price |-> price, quantity |-> qty]

Trade(buyId, sellId, price, qty) ==
    [buyOrderId |-> buyId, sellOrderId |-> sellId, price |-> price, quantity |-> qty]

\* ------------------------------------------------------------------------
\* ObjectPool (include/ObjectPool.h).  e is the engine state as a record.
\* ------------------------------------------------------------------------
\* the constructor: every slot is free, pushed in reverse so slot 0 is used first
ObjectPool(capacity) ==
    [storage |-> [i \in 0 .. (capacity - 1) |-> NoOrder],
     freeSlots |-> [i \in 1 .. capacity |-> capacity - i],
     capacity_ |-> capacity,
     size_ |-> 0]

acquireFront(e, order) ==
    LET index == e.freeSlots[1]
    IN  [e EXCEPT !.freeSlots = Tail(e.freeSlots),
                  !.size_ = e.size_ + 1,
                  !.storage[index] = order,
                  !.slot = index]

\* acquire, after the exhaustion test: pop a free index, construct in place
acquire(e, order) ==
    LET index == e.freeSlots[Len(e.freeSlots)]
    IN  [e EXCEPT !.freeSlots = SubSeq(e.freeSlots, 1, Len(e.freeSlots) - 1),
                  !.size_ = e.size_ + 1,
                  !.storage[index] = order,
                  !.slot = index]

releaseTwice(e, ptr) ==
    [e EXCEPT !.storage[ptr] = NoOrder,
              !.freeSlots = Append(Append(e.freeSlots, ptr), ptr),
              !.size_ = e.size_ - 2]

release(e, ptr) ==
    [e EXCEPT !.storage[ptr] = NoOrder,
              !.freeSlots = Append(e.freeSlots, ptr),
              !.size_ = e.size_ - 1]

releaseAllHeadOnly(e, filled) ==
    IF filled = <<>> THEN e ELSE release(e, Head(filled))

RECURSIVE releaseAll(_, _)
releaseAll(e, filled) ==
    IF filled = <<>> THEN e
    ELSE releaseAll(release(e, Head(filled)), Tail(filled))

\* ------------------------------------------------------------------------
\* PriceLevel (include/OrderBook.h)
\* ------------------------------------------------------------------------
PriceLevel(p) == [price |-> p, orders |-> <<>>, totalQuantity |-> 0]

PriceLevel_addOrderFront(level, ptr, order) ==
    [level EXCEPT !.orders = <<ptr>> \o level.orders,
                  !.totalQuantity = AddQ(level.totalQuantity, order.remaining)]

PriceLevel_addOrder(level, ptr, order) ==
    [level EXCEPT !.orders = Append(level.orders, ptr),
                  !.totalQuantity = AddQ(level.totalQuantity, order.remaining)]

PriceLevel_removeOrderKeepTotal(level, ptr, order) ==
    [level EXCEPT !.orders = ListErase(level.orders, ptr)]

PriceLevel_removeOrder(level, ptr, order) ==
    [level EXCEPT !.totalQuantity = SubQ(level.totalQuantity, order.remaining),
                  !.orders = ListErase(level.orders, ptr)]

PriceLevel_empty(level) == level.orders = <<>>

\* ------------------------------------------------------------------------
\* OrderBook (src/OrderBook.cpp)
\* ------------------------------------------------------------------------
addToBids(e, ptr) ==
    LET order == e.storage[ptr]
        level == IF order.price \in DOMAIN e.bids_
                 THEN e.bids_[order.price]
                 ELSE PriceLevel(order.price)
    IN  [e EXCEPT !.bids_ = MapPut(e.bids_, order.price,
                                   PriceLevel_addOrder(level, ptr, order))]

addToAsks(e, ptr) ==
    LET order == e.storage[ptr]
        level == IF order.price \in DOMAIN e.asks_
                 THEN e.asks_[order.price]
                 ELSE PriceLevel(order.price)
    IN  [e EXCEPT !.asks_ = MapPut(e.asks_, order.price,
                                   PriceLevel_addOrder(level, ptr, order))]

addOrderAlwaysBids(e, ptr) ==
    LET e1 == addToBids(e, ptr)
    IN  [e1 EXCEPT !.orderLookup_ = MapPut(e1.orderLookup_, e.storage[ptr].id, ptr)]

addOrder(e, ptr) ==
    LET e1 == IF e.storage[ptr].side = "Buy" THEN addToBids(e, ptr)
                                             ELSE addToAsks(e, ptr)
    IN  [e1 EXCEPT !.orderLookup_ = MapPut(e1.orderLookup_, e.storage[ptr].id, ptr)]

\* cancelOrder, the removal from the order's side: find the level at the
\* order's price, unlink the order, erase the level if it became empty
cancelFromSideKeepLevel(levels, ptr, order) ==
    IF order.price \in DOMAIN levels
    THEN MapPut(levels, order.price,
                PriceLevel_removeOrder(levels[order.price], ptr, order))
    ELSE levels

cancelFromSide(levels, ptr, order) ==
    IF order.price \in DOMAIN levels
    THEN LET level == PriceLevel_removeOrder(levels[order.price], ptr, order)
         IN  IF PriceLevel_empty(level)
             THEN MapErase(levels, order.price)
             ELSE MapPut(levels, order.price, level)
    ELSE levels

\* cancelOrder without the orderLookup_.erase(it)
cancelOrderKeepBinding(e, id) ==
    LET ptr == e.orderLookup_[id]
        order == e.storage[ptr]
    IN  IF order.side = "Buy"
        THEN [e EXCEPT !.bids_ = cancelFromSide(e.bids_, ptr, order)]
        ELSE [e EXCEPT !.asks_ = cancelFromSide(e.asks_, ptr, order)]

\* cancelOrder for an id that is found in orderLookup_ (the caller tests it)
cancelOrder(e, id) ==
    LET ptr == e.orderLookup_[id]
        order == e.storage[ptr]
        e1 == IF order.side = "Buy"
              THEN [e EXCEPT !.bids_ = cancelFromSide(e.bids_, ptr, order)]
              ELSE [e EXCEPT !.asks_ = cancelFromSide(e.asks_, ptr, order)]
    IN  [e1 EXCEPT !.orderLookup_ = MapErase(e1.orderLookup_, id)]

\* the price barrier of a limit order
matchBuyStopsAtEqual(buyOrder, askPrice) ==
    buyOrder.type = "Limit" /\ buyOrder.price <= askPrice

matchBuyStopsAnyType(buyOrder, askPrice) == buyOrder.price < askPrice

matchBuyStops(buyOrder, askPrice) ==
    buyOrder.type = "Limit" /\ buyOrder.price < askPrice

matchSellStopsAtEqual(sellOrder, bidPrice) ==
    sellOrder.type = "Limit" /\ sellOrder.price >= bidPrice

matchSellStops(sellOrder, bidPrice) ==
    sellOrder.type = "Limit" /\ sellOrder.price > bidPrice

\* Quantity fillQty = std::min(incoming.remaining, restingOrder->remaining)
fillQtyNoMin(incoming, restingOrder) == incoming.remaining

fillQty(incoming, restingOrder) == Min(incoming.remaining, restingOrder.remaining)

RECURSIVE matchBuyLevelKeepsBinding(_, _, _)
matchBuyLevelKeepsBinding(e, b, askPrice) ==
    LET level == e.asks_[askPrice]
    IN  IF level.orders # <<>> /\ e.storage[b].remaining > 0
        THEN LET restingOrder == Head(level.orders)
                 qty == fillQty(e.storage[b], e.storage[restingOrder])
                 st1 == [e.storage EXCEPT ![b] = fill(@, qty)]
                 st2 == [st1 EXCEPT ![restingOrder] = fill(@, qty)]
                 trade == Trade(st2[b].id, st2[restingOrder].id, askPrice, qty)
                 filled == isFilled(st2[restingOrder])
                 level1 == [level EXCEPT
                              !.totalQuantity = SubQ(level.totalQuantity, qty),
                              !.orders = IF filled THEN Tail(level.orders)
                                                   ELSE level.orders]
                 e1 == [e EXCEPT
                          !.storage = st2,
                          !.asks_ = MapPut(e.asks_, askPrice, level1),
                          !.trades = Append(e.trades, trade),
                          !.filledOrders =
                              IF filled THEN Append(e.filledOrders, restingOrder)
                                        ELSE e.filledOrders]
             IN  matchBuyLevelKeepsBinding(e1, b, askPrice)
        ELSE e

\* matchBuy, the inner loop over the FIFO queue of the level at askPrice
RECURSIVE matchBuyLevel(_, _, _)
matchBuyLevel(e, b, askPrice) ==
    LET level == e.asks_[askPrice]
    IN  IF level.orders # <<>> /\ e.storage[b].remaining > 0
        THEN LET restingOrder == Head(level.orders)
                 qty == fillQty(e.storage[b], e.storage[restingOrder])
                 st1 == [e.storage EXCEPT ![b] = fill(@, qty)]
                 st2 == [st1 EXCEPT ![restingOrder] = fill(@, qty)]
                 trade == Trade(st2[b].id, st2[restingOrder].id, askPrice, qty)
                 filled == isFilled(st2[restingOrder])
                 level1 == [level EXCEPT
                              !.totalQuantity = SubQ(level.totalQuantity, qty),
                              !.orders = IF filled THEN Tail(level.orders)
                                                   ELSE level.orders]
                 e1 == [e EXCEPT
                          !.storage = st2,
                          !.asks_ = MapPut(e.asks_, askPrice, level1),
                          !.trades = Append(e.trades, trade),
                          !.orderLookup_ =
                              IF filled THEN MapErase(e.orderLookup_, st2[restingOrder].id)
                                        ELSE e.orderLookup_,
                          !.filledOrders =
                              IF filled THEN Append(e.filledOrders, restingOrder)
                                        ELSE e.filledOrders]
             IN  matchBuyLevel(e1, b, askPrice)
        ELSE e

\* matchBuy, after the inner loop: a level left empty is erased
matchBuyEraseLevel(e, askPrice) ==
    IF PriceLevel_empty(e.asks_[askPrice])
    THEN [e EXCEPT !.asks_ = MapErase(e.asks_, askPrice)]
    ELSE e

RECURSIVE matchBuy(_, _)
matchBuy(e, b) ==
    IF DOMAIN e.asks_ # {} /\ e.storage[b].remaining > 0
    THEN LET askPrice == MinOf(DOMAIN e.asks_)
         IN  IF matchBuyStops(e.storage[b], askPrice)
             THEN e
             ELSE matchBuy(matchBuyEraseLevel(matchBuyLevel(e, b, askPrice), askPrice), b)
    ELSE e

\* matchSell, the inner loop over the FIFO queue of the level at bidPrice
RECURSIVE matchSellLevel(_, _, _)
matchSellLevel(e, s, bidPrice) ==
    LET level == e.bids_[bidPrice]
    IN  IF level.orders # <<>> /\ e.storage[s].remaining > 0
        THEN LET restingOrder == Head(level.orders)
                 qty == fillQty(e.storage[s], e.storage[restingOrder])
                 st1 == [e.storage EXCEPT ![s] = fill(@, qty)]
                 st2 == [st1 EXCEPT ![restingOrder] = fill(@, qty)]
                 trade == Trade(st2[restingOrder].id, st2[s].id, bidPrice, qty)
                 filled == isFilled(st2[restingOrder])
                 level1 == [level EXCEPT
                              !.totalQuantity = SubQ(level.totalQuantity, qty),
                              !.orders = IF filled THEN Tail(level.orders)
                                                   ELSE level.orders]
                 e1 == [e EXCEPT
                          !.storage = st2,
                          !.bids_ = MapPut(e.bids_, bidPrice, level1),
                          !.trades = Append(e.trades, trade),
                          !.orderLookup_ =
                              IF filled THEN MapErase(e.orderLookup_, st2[restingOrder].id)
                                        ELSE e.orderLookup_,
                          !.filledOrders =
                              IF filled THEN Append(e.filledOrders, restingOrder)
                                        ELSE e.filledOrders]
             IN  matchSellLevel(e1, s, bidPrice)
        ELSE e

\* matchSell, after the inner loop: a level left empty is erased
matchSellEraseLevel(e, bidPrice) ==
    IF PriceLevel_empty(e.bids_[bidPrice])
    THEN [e EXCEPT !.bids_ = MapErase(e.bids_, bidPrice)]
    ELSE e

RECURSIVE matchSell(_, _)
matchSell(e, s) ==
    IF DOMAIN e.bids_ # {} /\ e.storage[s].remaining > 0
    THEN LET bidPrice == MaxOf(DOMAIN e.bids_)
         IN  IF matchSellStops(e.storage[s], bidPrice)
             THEN e
             ELSE matchSell(matchSellEraseLevel(matchSellLevel(e, s, bidPrice), bidPrice), s)
    ELSE e

match(e, incoming) ==
    IF e.storage[incoming].side = "Buy" THEN matchBuy(e, incoming)
                                        ELSE matchSell(e, incoming)

\* market data
NoPrice == 0 - 1

bestBidLowest == IF DOMAIN bids_ = {} THEN NoPrice ELSE MinOf(DOMAIN bids_)

bestBid == IF DOMAIN bids_ = {} THEN NoPrice ELSE MaxOf(DOMAIN bids_)

bestAsk == IF DOMAIN asks_ = {} THEN NoPrice ELSE MinOf(DOMAIN asks_)

\* std::optional<Price> as a sequence: <<>> is nullopt, <<v>> holds v
spread ==
    IF bestBid # NoPrice /\ bestAsk # NoPrice THEN <<bestAsk - bestBid>> ELSE <<>>

orderCount == Cardinality(DOMAIN orderLookup_)

bidLevelCount == Cardinality(DOMAIN bids_)

askLevelCount == Cardinality(DOMAIN asks_)

\* ------------------------------------------------------------------------
\* MatchingEngine (src/MatchingEngine.cpp)
\* ------------------------------------------------------------------------
\* the engine state as one record, with the per-call results empty
Engine ==
    [storage |-> storage, freeSlots |-> freeSlots, size_ |-> size_,
     bids_ |-> bids_, asks_ |-> asks_, orderLookup_ |-> orderLookup_,
     slot |-> 0, trades |-> <<>>, filledOrders |-> <<>>]

\* submitLimit, the end: rest the order if it has quantity left, else release
submitLimitNeverRest(e, order) == release(e, order)

submitLimitRestAlways(e, order) == addOrder(e, order)

submitLimitRest(e, order) ==
    IF ~isFilled(e.storage[order]) THEN addOrder(e, order)
                                   ELSE release(e, order)

\* submitMarket, the end: the order is always released
submitMarketRestResidual(e, order) ==
    IF ~isFilled(e.storage[order]) THEN addOrder(e, order)
                                   ELSE release(e, order)

submitMarketRelease(e, order) == release(e, order)

\* submitLimit / submitMarket up to the release of the filled resting orders
submitMatch(e, id, side, type, price, qty) ==
    LET e1 == acquire(e, Order(id, side, type, price, qty, clock))
        e2 == match(e1, e1.slot)
    IN  releaseAll(e2, e2.filledOrders)

Call(op, id, side, price, qty) ==
    [op |-> op, id |-> id, side |-> side, price |-> price, qty |-> qty,
     threw |-> FALSE, returned |-> FALSE, trades |-> <<>>, filledOrders |-> <<>>,
     slot |-> 0, remaining |-> 0]

PoolExhaustedAfterCount(op, id, side, price, qty) ==
    /\ lastCall' = [Call(op, id, side, price, qty) EXCEPT !.threw = TRUE]
    /\ orderCount_' = orderCount_ + 1
    /\ UNCHANGED <<storage, freeSlots, size_, capacity_, bids_, asks_, orderLookup_,
                   tradeCount_, clock>>

\* acquire throws when the free list is empty: nothing has changed yet
PoolExhausted(op, id, side, price, qty) ==
    /\ lastCall' = [Call(op, id, side, price, qty) EXCEPT !.threw = TRUE]
    /\ UNCHANGED <<storage, freeSlots, size_, capacity_, bids_, asks_, orderLookup_,
                   tradeCount_, orderCount_, clock>>

Commit(e) ==
    /\ storage' = e.storage
    /\ freeSlots' = e.freeSlots
    /\ size_' = e.size_
    /\ bids_' = e.bids_
    /\ asks_' = e.asks_
    /\ orderLookup_' = e.orderLookup_
    /\ UNCHANGED capacity_

SubmitLimit(id, side, price, qty) ==
    /\ orderCount_ < MaxOrders
    /\ IF freeSlots = <<>>
       THEN PoolExhausted("submitLimit", id, side, price, qty)
       ELSE LET e1 == submitMatch(Engine, id, side, "Limit", price, qty)
                e2 == submitLimitRest(e1, e1.slot)
            IN  /\ Commit(e2)
                /\ orderCount_' = orderCount_ + 1
                /\ tradeCount_' = tradeCount_ + Len(e1.trades)
                /\ clock' = clock + 1
                /\ lastCall' = [Call("submitLimit", id, side, price, qty) EXCEPT
                                  !.trades = e1.trades,
                                  !.filledOrders = e1.filledOrders,
                                  !.slot = e1.slot,
                                  !.remaining = e1.storage[e1.slot].remaining]

SubmitMarketCountsFills(id, side, qty) ==
    /\ orderCount_ < MaxOrders
    /\ IF freeSlots = <<>>
       THEN PoolExhausted("submitMarket", id, side, 0, qty)
       ELSE LET e1 == submitMatch(Engine, id, side, "Market", 0, qty)
                e2 == submitMarketRelease(e1, e1.slot)
            IN  /\ Commit(e2)
                /\ orderCount_' = orderCount_ + 1
                /\ tradeCount_' = tradeCount_ + Len(e1.filledOrders)
                /\ clock' = clock + 1
                /\ lastCall' = [Call("submitMarket", id, side, 0, qty) EXCEPT
                                  !.trades = e1.trades,
                                  !.filledOrders = e1.filledOrders,
                                  !.slot = e1.slot,
                                  !.remaining = e1.storage[e1.slot].remaining]

SubmitMarket(id, side, qty) ==
    /\ orderCount_ < MaxOrders
    /\ IF freeSlots = <<>>
       THEN PoolExhausted("submitMarket", id, side, 0, qty)
       ELSE LET e1 == submitMatch(Engine, id, side, "Market", 0, qty)
                e2 == submitMarketRelease(e1, e1.slot)
            IN  /\ Commit(e2)
                /\ orderCount_' = orderCount_ + 1
                /\ tradeCount_' = tradeCount_ + Len(e1.trades)
                /\ clock' = clock + 1
                /\ lastCall' = [Call("submitMarket", id, side, 0, qty) EXCEPT
                                  !.trades = e1.trades,
                                  !.filledOrders = e1.filledOrders,
                                  !.slot = e1.slot,
                                  !.remaining = e1.storage[e1.slot].remaining]

Cancel(id) ==
    /\ IF id \in DOMAIN orderLookup_
       THEN /\ Commit(cancelOrder(Engine, id))
            /\ lastCall' = [Call("cancel", id, "Buy", 0, 0) EXCEPT
                              !.returned = TRUE, !.slot = orderLookup_[id]]
       ELSE /\ lastCall' = Call("cancel", id, "Buy", 0, 0)
            /\ UNCHANGED <<storage, freeSlots, size_, capacity_, bids_, asks_, orderLookup_>>
    /\ UNCHANGED <<tradeCount_, orderCount_, clock>>

Init ==
    /\ \E poolSize \in PoolSizes :
           /\ storage = ObjectPool(poolSize).storage
           /\ freeSlots = ObjectPool(poolSize).freeSlots
           /\ capacity_ = ObjectPool(poolSize).capacity_
           /\ size_ = ObjectPool(poolSize).size_
    /\ bids_ = EmptyMap
    /\ asks_ = EmptyMap
    /\ orderLookup_ = EmptyMap
    /\ tradeCount_ = 0
    /\ orderCount_ = 0
    /\ clock = 1
    /\ lastCall = Call("none", 0, "Buy", 0, 0)

Next ==
    \/ \E id \in OrderIds, side \in Sides, price \in Prices, qty \in Quantities :
           SubmitLimit(id, side, price, qty)
    \/ \E id \in OrderIds, side \in Sides, qty \in Quantities :
           SubmitMarket(id, side, qty)
    \/ \E id \in OrderIds : Cancel(id)

Spec == Init /\ [][Next]_vars

\* ------------------------------------------------------------------------
\* Vocabulary of the properties
\* ------------------------------------------------------------------------
Range(s) == {s[i] : i \in DOMAIN s}

\* the orders (slots) queued in the levels of one side
QueuedIn(levels) == UNION {Range(levels[p].orders) : p \in DOMAIN levels}

Queued == QueuedIn(bids_) \cup QueuedIn(asks_)

Bound == {orderLookup_[id] : id \in DOMAIN orderLookup_}

Submitted(c) == c.op \in {"submitLimit", "submitMarket"} /\ ~c.threw

\* the side an aggressor of side s matches against, and its own side
Opposite(s) == IF s = "Buy" THEN asks_ ELSE bids_

OwnSide(s) == IF s = "Buy" THEN bids_ ELSE asks_

\* order a has priority over order b for an aggressor of side s:
\* a strictly better price, or the same price and an earlier arrival
Before(s, a, b) ==
    \/ IF s = "Buy" THEN a.price < b.price ELSE a.price > b.price
    \/ a.price = b.price /\ a.timestamp < b.timestamp

\* the orders of S in price-time priority for an aggressor of side s
RECURSIVE ByPriority(_, _)
ByPriority(s, S) ==
    IF S = {} THEN <<>>
    ELSE LET first == CHOOSE x \in S :
                        \A y \in S \ {x} : Before(s, storage[x], storage[y])
         IN  <<first>> \o ByPriority(s, S \ {first})

\* the prices of a set in ascending order
RECURSIVE ByPrice(_)
ByPrice(P) ==
    IF P = {} THEN <<>> ELSE <<MinOf(P)>> \o ByPrice(P \ {MinOf(P)})

\* the opposing orders, in priority order, as an aggressor of side s finds them
Opposing(s) == ByPriority(s, QueuedIn(Opposite(s)))

\* the id of the resting order in a trade of an aggressor of side s
RestingId(t, s) == IF s = "Buy" THEN t.sellOrderId ELSE t.buyOrderId

TradedQty(trades) == SumSeq([k \in DOMAIN trades |-> trades[k].quantity])

\* ------------------------------------------------------------------------
\* Properties
\* ------------------------------------------------------------------------

\* C1: after every operation, if both sides of the book are non-empty then
\* bestBid < bestAsk: the resting book is never locked or crossed.
C1_NeverLockedOrCrossed ==
    (DOMAIN bids_ # {} /\ DOMAIN asks_ # {}) => bestBid < bestAsk

\* a limit order has traded, and its residual rests opposite a non-empty side
C1_Witness ==
    /\ lastCall.op = "submitLimit"
    /\ lastCall.trades # <<>>
    /\ lastCall.slot \in Queued
    /\ DOMAIN bids_ # {}
    /\ DOMAIN asks_ # {}

\* The trades returned by a submission of side s, against the opposing
\* orders taken in price-time priority as they stood before the call:
\* the k-th trade is with the k-th opposing order, and every order before
\* the one of the last trade has been filled completely.
PriceTimePriority(c, opposing) ==
    /\ Len(c.trades) <= Len(opposing)
    /\ \A k \in 1 .. Len(c.trades) :
           /\ k <= Len(opposing)
           /\ RestingId(c.trades[k], c.side) = storage[opposing[k]].id
           /\ k < Len(c.trades) =>
                  c.trades[k].quantity = storage[opposing[k]].remaining

\* C2: price-time priority.  In the trade list of one submission the resting
\* orders are consumed best price first and, within a price, in order of
\* arrival; an order is filled only when every order ahead of it was filled
\* completely.
C2_PriceTimePriority ==
    [][Submitted(lastCall') => PriceTimePriority(lastCall', Opposing(lastCall'.side))]_vars

\* one submission has traded at two prices
C2_Witness ==
    /\ Submitted(lastCall)
    /\ Len(lastCall.trades) = 2
    /\ lastCall.trades[1].price # lastCall.trades[2].price

\* one submission has traded with two orders of one level
C2_WitnessFifo ==
    /\ Submitted(lastCall)
    /\ Len(lastCall.trades) = 2
    /\ lastCall.trades[1].price = lastCall.trades[2].price

\* the k-th trade of call c, made with resting order r
TradeAtRestingPrice(c, t, r) ==
    /\ t.price = r.price
    /\ t.buyOrderId = (IF c.side = "Buy" THEN c.id ELSE r.id)
    /\ t.sellOrderId = (IF c.side = "Sell" THEN c.id ELSE r.id)

\* C3: every trade executes at the price of the resting order (the price of
\* the level it was taken from), its buyOrderId is the id of the Buy order
\* and its sellOrderId the id of the Sell order, whoever was the aggressor.
C3_TradeAtRestingPrice ==
    [][Submitted(lastCall') =>
          \A k \in 1 .. Len(lastCall'.trades) :
              /\ k <= Len(Opposing(lastCall'.side))
              /\ LET r == Opposing(lastCall'.side)[k]
                     t == lastCall'.trades[k]
                 IN  /\ TradeAtRestingPrice(lastCall', t, storage[r])
                     /\ t.price \in DOMAIN Opposite(lastCall'.side)
                     /\ r \in Range(Opposite(lastCall'.side)[t.price].orders)]_vars

\* a limit Sell has traded above its limit price with a resting Buy
C3_Witness ==
    /\ lastCall.op = "submitLimit"
    /\ lastCall.side = "Sell"
    /\ lastCall.trades # <<>>
    /\ lastCall.trades[1].price > lastCall.price
    /\ lastCall.trades[1].buyOrderId # lastCall.trades[1].sellOrderId

\* the number of orders queued over all levels of one side
QueuedCount(levels) ==
    SumSeq([k \in 1 .. Cardinality(DOMAIN levels) |->
               Len(levels[ByPrice(DOMAIN levels)[k]].orders)])

\* C4: after every operation the id map contains exactly the resting orders:
\* every order queued in a level is bound under its own id to itself, no id
\* is bound to an order that is in no level, and orderCount() is the number
\* of orders over all bid and ask levels.
C4_IdMapIsRestingSet ==
    /\ \A o \in Queued :
           /\ storage[o].id \in DOMAIN orderLookup_
           /\ orderLookup_[storage[o].id] = o
    /\ \A id \in DOMAIN orderLookup_ : orderLookup_[id] \in Queued
    /\ orderCount = QueuedCount(bids_) + QueuedCount(asks_)

\* side and price of every order queued in the levels of one side
LevelsConsistent(levels, side) ==
    \A p \in DOMAIN levels :
        /\ levels[p].price = p
        /\ \A o \in Range(levels[p].orders) :
               storage[o].side = side /\ storage[o].price = p

\* C5: after every operation each resting order sits in exactly one price
\* level, in the bid map iff its side is Buy and in the ask map iff it is
\* Sell, and the price of the level is the price of the order.
C5_SideAndPriceConsistent ==
    /\ LevelsConsistent(bids_, "Buy")
    /\ LevelsConsistent(asks_, "Sell")
    /\ QueuedCount(bids_) + QueuedCount(asks_) = Cardinality(Queued)
    /\ Bound \subseteq Queued

\* a Sell order has just been rested while Buy orders rest too
C5_Witness ==
    /\ lastCall.op = "submitLimit"
    /\ lastCall.side = "Sell"
    /\ lastCall.slot \in QueuedIn(asks_)
    /\ QueuedIn(bids_) # {}

\* C6: after every operation every resting order has
\* 0 < remaining <= original quantity: a filled order is left neither in a
\* level nor in the id map, and no order with zero remaining is rested.
C6_RestingQuantityPositive ==
    \A o \in Queued \cup Bound :
        0 < storage[o].remaining /\ storage[o].remaining <= storage[o].quantity

\* one call has filled a resting order completely and another one in part
C6_Witness ==
    /\ Submitted(lastCall)
    /\ lastCall.filledOrders # <<>>
    /\ \E o \in Queued : storage[o].remaining < storage[o].quantity

\* C7: after every operation the cached totalQuantity of every level is the
\* sum of the remaining quantities of the orders in its queue.
C7_TotalQuantityIsSum ==
    \A levels \in {bids_, asks_} :
        \A p \in DOMAIN levels :
            levels[p].totalQuantity =
                SumSeq([k \in DOMAIN levels[p].orders |->
                           storage[levels[p].orders[k]].remaining])

\* C8: after every operation neither map holds a level whose queue is empty.
C8_NoEmptyLevel ==
    \A levels \in {bids_, asks_} :
        \A p \in DOMAIN levels : levels[p].orders # <<>>

\* the only order of a level has been cancelled and the level is gone
C8_Witness ==
    /\ lastCall.op = "cancel"
    /\ lastCall.returned
    /\ storage[lastCall.slot].price \notin DOMAIN OwnSide(storage[lastCall.slot].side)
    /\ Queued # {}

\* the quantity of the k-th trade of call c, given the opposing orders in
\* priority order: what is left of the aggressor before it, or what the
\* resting order has, whichever is less
ExpectedQty(c, opposing, k) ==
    Min(c.qty - TradedQty(SubSeq(c.trades, 1, k - 1)), storage[opposing[k]].remaining)

\* C9: conservation.  Every trade takes its quantity, the minimum of what
\* the aggressor and the resting order have left, from both of them, no
\* remaining goes below zero, and the trade quantities of one submission
\* add up to the submitted quantity less what the aggressor has left.
C9_QuantityConserved ==
    [][Submitted(lastCall') =>
          /\ TradedQty(lastCall'.trades) + lastCall'.remaining = lastCall'.qty
          /\ \A k \in 1 .. Len(lastCall'.trades) :
                 /\ k <= Len(Opposing(lastCall'.side))
                 /\ LET r == Opposing(lastCall'.side)[k]
                        q == lastCall'.trades[k].quantity
                    IN  /\ q = ExpectedQty(lastCall', Opposing(lastCall'.side), k)
                        /\ q <= storage[r].remaining
                        /\ IF q = storage[r].remaining
                           THEN r \in Range(lastCall'.filledOrders) /\ r \notin Queued'
                           ELSE storage'[r].remaining = storage[r].remaining - q]_vars

\* an aggressor has traded with two orders and has quantity left
C9_Witness ==
    /\ Submitted(lastCall)
    /\ Len(lastCall.trades) = 2
    /\ lastCall.remaining > 0
    /\ lastCall.remaining < lastCall.qty

NoMarketOrderInBook ==
    \A o \in Queued \cup Bound : storage[o].type = "Limit"

\* C10: a market order never rests.  A submitMarket binds nothing in the id
\* map, changes no level on its own side, and no order of type Market is in
\* the book in any state.
C10_MarketNeverRests ==
    [][/\ NoMarketOrderInBook'
       /\ (lastCall'.op = "submitMarket" /\ ~lastCall'.threw) =>
              /\ IF lastCall'.side = "Buy" THEN bids_' = bids_ ELSE asks_' = asks_
              /\ \A o \in QueuedIn(OwnSide(lastCall'.side)) : storage'[o] = storage[o]
              /\ lastCall'.slot \notin Queued' \cup Bound'
              /\ \A id \in DOMAIN orderLookup_' :
                     id \in DOMAIN orderLookup_ /\ orderLookup_'[id] = orderLookup_[id]]_vars

\* a market order has traded, has quantity left, and its own side has orders
C10_Witness ==
    /\ lastCall.op = "submitMarket"
    /\ lastCall.trades # <<>>
    /\ lastCall.remaining > 0
    /\ DOMAIN OwnSide(lastCall.side) # {}

\* the quantity resting on one side: the remaining of its queued orders
RestingQty(levels) ==
    LET q == ByPriority("Buy", QueuedIn(levels))
    IN  SumSeq([k \in DOMAIN q |-> storage[q[k]].remaining])

\* C11: a market order of quantity q walks the opposite side without a price
\* barrier: its trades add up to min(q, quantity resting on the opposite
\* side before the call); if they add up to less than q the opposite side is
\* empty afterwards and the rest of the order is dropped, without an error.
C11_MarketWalksOppositeSide ==
    [][(lastCall'.op = "submitMarket" /\ freeSlots # <<>>) =>
          /\ ~lastCall'.threw
          /\ TradedQty(lastCall'.trades) =
                 Min(lastCall'.qty, RestingQty(Opposite(lastCall'.side)))
          /\ TradedQty(lastCall'.trades) < lastCall'.qty =>
                 /\ IF lastCall'.side = "Buy" THEN DOMAIN asks_' = {}
                                              ELSE DOMAIN bids_' = {}
                 /\ lastCall'.slot \notin Queued' \cup Bound'
                 /\ storage'[lastCall'.slot] = NoOrder]_vars

\* a market Buy has taken two asks at two prices, emptied the asks and has
\* quantity left
C11_Witness ==
    /\ lastCall.op = "submitMarket"
    /\ lastCall.side = "Buy"
    /\ Len(lastCall.trades) = 2
    /\ lastCall.trades[1].price < lastCall.trades[2].price
    /\ lastCall.remaining > 0
    /\ DOMAIN asks_ = {}

\* what a successful cancel of order o (content ord) does to the level at
\* its price, in the map of its side before (levels) and after (levels2)
CancelledFromLevel(o, ord, levels, levels2) ==
    /\ ord.price \in DOMAIN levels
    /\ o \in Range(levels[ord.price].orders)
    /\ ord.price \notin DOMAIN levels2 <=> levels[ord.price].orders = <<o>>
    /\ ord.price \in DOMAIN levels2 =>
           /\ levels2[ord.price].orders = ListErase(levels[ord.price].orders, o)
           /\ levels2[ord.price].totalQuantity =
                  levels[ord.price].totalQuantity - ord.remaining
    /\ \A p \in DOMAIN levels \ {ord.price} :
           p \in DOMAIN levels2 /\ levels2[p] = levels[p]

\* C12: cancel(id) returns true exactly when id is bound to a resting order;
\* then the order is removed from its level, the level's totalQuantity drops
\* by the order's remaining, the level is erased if it became empty, and the
\* binding is cleared, so that orderCount() goes down by one.
C12_CancelRemoves ==
    [][lastCall'.op = "cancel" =>
          /\ lastCall'.returned <=> lastCall'.id \in DOMAIN orderLookup_
          /\ lastCall'.returned =>
                 /\ lastCall'.slot = orderLookup_[lastCall'.id]
                 /\ lastCall'.slot \notin Queued'
                 /\ IF storage[lastCall'.slot].side = "Buy"
                    THEN CancelledFromLevel(lastCall'.slot, storage[lastCall'.slot],
                                            bids_, bids_')
                    ELSE CancelledFromLevel(lastCall'.slot, storage[lastCall'.slot],
                                            asks_, asks_')
                 /\ lastCall'.id \notin DOMAIN orderLookup_'
                 /\ orderCount' = orderCount - 1]_vars

\* the slots that are neither free nor queued: the orders that were cancelled
Cancelled == {o \in DOMAIN storage : o \notin Range(freeSlots) /\ o \notin Queued}

\* C13: cancelling an id that is not resting (already cancelled, already
\* filled, never submitted) returns false and changes nothing: the book, the
\* id map, the pool and the counters stay as they were.  An order that was
\* cancelled or filled is not resting: its binding is gone.
C13_CancelUnknownIsNoOp ==
    [][/\ (lastCall'.op = "cancel" /\ lastCall'.id \notin DOMAIN orderLookup_) =>
              /\ ~lastCall'.returned
              /\ UNCHANGED <<storage, freeSlots, size_, capacity_, bids_, asks_,
                             orderLookup_, tradeCount_, orderCount_>>
       /\ (lastCall'.op = "cancel" /\ lastCall'.returned) =>
              /\ lastCall'.id \notin DOMAIN orderLookup_'
              /\ lastCall'.slot \notin Bound'
       /\ Submitted(lastCall') =>
              \A o \in Range(lastCall'.filledOrders) : o \notin Bound' \cup Queued']_vars

\* cancel has returned false for the id of an order cancelled earlier, while
\* other orders rest
C13_Witness ==
    /\ lastCall.op = "cancel"
    /\ ~lastCall.returned
    /\ \E o \in Cancelled : storage[o].id = lastCall.id
    /\ Queued # {}

\* the book of engine state e: both side maps with their levels (FIFO order
\* and totalQuantity), the id map, and the content of the queued orders
Book(e) ==
    [bids_ |-> e.bids_, asks_ |-> e.asks_, orderLookup_ |-> e.orderLookup_,
     orders |-> [o \in QueuedIn(e.bids_) \cup QueuedIn(e.asks_) |-> e.storage[o]]]

\* cancel(id) applied to engine state e
AfterCancel(e, id) ==
    IF id \in DOMAIN e.orderLookup_ THEN cancelOrder(e, id) ELSE e

\* C14 as stated: from any reachable state, submitLimit with a fresh id and
\* qty > 0 followed at once by cancel(id) leaves the book as it was before
\* the submission.
C14_RoundTripAnySubmit ==
    [][(/\ lastCall'.op = "submitLimit"
        /\ ~lastCall'.threw
        /\ lastCall'.id \notin DOMAIN orderLookup_
        /\ lastCall'.qty > 0) =>
          Book(AfterCancel(Engine', lastCall'.id)) = Book(Engine)]_vars

\* C14 amended: the same for a submitLimit that returns no trades.
C14_RoundTripNoTrade ==
    [][(/\ lastCall'.op = "submitLimit"
        /\ ~lastCall'.threw
        /\ lastCall'.id \notin DOMAIN orderLookup_
        /\ lastCall'.qty > 0
        /\ lastCall'.trades = <<>>) =>
          /\ lastCall'.id \in DOMAIN orderLookup_'
          /\ Book(AfterCancel(Engine', lastCall'.id)) = Book(Engine)]_vars

\* the order submitted last has rested whole behind another order of its
\* level, opposite a non-empty side, and has been cancelled
C14_Witness ==
    /\ lastCall.op = "cancel"
    /\ lastCall.returned
    /\ storage[lastCall.slot].timestamp = clock - 1
    /\ storage[lastCall.slot].remaining = storage[lastCall.slot].quantity
    /\ storage[lastCall.slot].price \in DOMAIN OwnSide(storage[lastCall.slot].side)
    /\ DOMAIN Opposite(storage[lastCall.slot].side) # {}

\* C15: cancel(id) recycles the slot of the cancelled order iff the removal
\* succeeded: after a cancel that returns true the pool has one slot less in
\* use and one more free, after one that returns false the pool is unchanged.
C15_CancelReleasesSlot ==
    [][lastCall'.op = "cancel" =>
          IF lastCall'.returned
          THEN /\ size_' = size_ - 1
               /\ Len(freeSlots') = Len(freeSlots) + 1
               /\ lastCall'.slot \in Range(freeSlots')
          ELSE UNCHANGED <<storage, freeSlots, size_>>]_vars

\* C16: a submission with qty = 0 is rejected before any state changes: the
\* book, the pool, totalOrders and totalTrades stay as they were.
C16_ZeroQuantityRejected ==
    [][(lastCall'.op \in {"submitLimit", "submitMarket"} /\ lastCall'.qty = 0) =>
          UNCHANGED <<storage, freeSlots, size_, bids_, asks_, orderLookup_,
                      tradeCount_, orderCount_>>]_vars

\* C17: a submission whose id is the id of a resting order is rejected and
\* changes neither the book nor the id map: the binding of that id is not
\* overwritten and no two resting orders have the same id.
C17_DuplicateIdRejected ==
    [][(/\ lastCall'.op \in {"submitLimit", "submitMarket"}
        /\ lastCall'.id \in DOMAIN orderLookup_) =>
          /\ UNCHANGED <<bids_, asks_, orderLookup_>>
          /\ \A o1, o2 \in Queued' :
                 o1 # o2 => storage'[o1].id # storage'[o2].id]_vars

\* C18: when the pool has no free slot, submitLimit and submitMarket fail
\* with PoolExhausted, and only then; the failing call produces no trade and
\* leaves the book, the id map, the pool and both counters unchanged.
C18_PoolExhaustedAtomic ==
    [][lastCall'.op \in {"submitLimit", "submitMarket"} =>
          /\ lastCall'.threw <=> freeSlots = <<>>
          /\ lastCall'.threw =>
                /\ lastCall'.trades = <<>>
                /\ UNCHANGED <<storage, freeSlots, size_, capacity_, bids_, asks_,
                               orderLookup_, tradeCount_, orderCount_>>]_vars

\* a submission has failed on a full pool while orders are resting
C18_Witness ==
    /\ lastCall.op \in {"submitLimit", "submitMarket"}
    /\ lastCall.threw
    /\ freeSlots = <<>>
    /\ Queued # {}

\* C19: totalOrders and totalTrades never decrease; a submission that
\* returns adds 1 to totalOrders and the number of its trades to
\* totalTrades; cancel and a failed submission change neither.
C19_Counters ==
    [][/\ orderCount_' >= orderCount_
       /\ tradeCount_' >= tradeCount_
       /\ Submitted(lastCall') =>
             /\ orderCount_' = orderCount_ + 1
             /\ tradeCount_' = tradeCount_ + Len(lastCall'.trades)
       /\ lastCall'.op = "cancel" => UNCHANGED <<orderCount_, tradeCount_>>]_vars

\* a market order has traded against two resting orders, filling one and
\* leaving the other partly filled
C19_Witness ==
    /\ lastCall.op = "submitMarket"
    /\ Len(lastCall.trades) = 2
    /\ Len(lastCall.filledOrders) = 1
    /\ tradeCount_ = 2
    /\ orderCount_ = 3

\* C20: after submitLimit the incoming order rests iff it has quantity left
\* after matching; a resting one is bound under its id, queued at the level
\* of its price on its own side, with remaining = qty - traded; a filled one
\* is neither queued nor bound; against an empty opposite side there are no
\* trades and the order rests with its whole quantity.
C20_LimitRestsIffResidual ==
    [][(lastCall'.op = "submitLimit" /\ ~lastCall'.threw) =>
          LET c    == lastCall'
              own  == IF c.side = "Buy" THEN bids_' ELSE asks_'
              rests == c.slot \in Queued'
          IN  /\ rests <=> c.remaining > 0
              /\ c.remaining = c.qty - TradedQty(c.trades)
              /\ rests =>
                    /\ c.id \in DOMAIN orderLookup_'
                    /\ orderLookup_'[c.id] = c.slot
                    /\ c.price \in DOMAIN own
                    /\ c.slot \in Range(own[c.price].orders)
                    /\ storage'[c.slot].id = c.id
                    /\ storage'[c.slot].remaining = c.remaining
              /\ ~rests => c.slot \notin Bound'
              /\ DOMAIN Opposite(c.side) = {} =>
                    /\ c.trades = <<>>
                    /\ c.remaining = c.qty
                    /\ rests]_vars

\* a limit order has traded and rests with what was left
C20_Witness ==
    /\ lastCall.op = "submitLimit"
    /\ lastCall.trades # <<>>
    /\ lastCall.slot \in Queued
    /\ lastCall.remaining > 0
    /\ lastCall.remaining < lastCall.qty
    /\ storage[lastCall.slot].remaining = lastCall.remaining

\* the resting orders of one side, read from the queues and the orders
\* themselves, not from the keys of the side maps
RestingOn(side) == {o \in Queued : storage[o].side = side}

RestingPrices(side) == {storage[o].price : o \in RestingOn(side)}

\* C21: bestBid() is the highest price of a resting Buy order and bestAsk()
\* the lowest price of a resting Sell order, each empty exactly when its
\* side has no resting order; spread() is bestAsk - bestBid when both are
\* present and empty otherwise.
C21_BestPricesAndSpread ==
    /\ bestBid = IF RestingOn("Buy") = {} THEN NoPrice
                 ELSE MaxOf(RestingPrices("Buy"))
    /\ bestAsk = IF RestingOn("Sell") = {} THEN NoPrice
                 ELSE MinOf(RestingPrices("Sell"))
    /\ spread = IF RestingOn("Buy") # {} /\ RestingOn("Sell") # {}
                THEN <<MinOf(RestingPrices("Sell")) - MaxOf(RestingPrices("Buy"))>>
                ELSE <<>>

\* both sides hold resting orders, one tick apart
C21_Witness ==
    /\ RestingOn("Buy") # {}
    /\ RestingOn("Sell") # {}
    /\ Cardinality(Queued) = 3
    /\ bestBid = 1
    /\ bestAsk = 2
    /\ spread = <<1>>

\* the number of times slot o is on a free list
FreeCount(free, o) == Cardinality({k \in DOMAIN free : free[k] = o})

\* C22: when submitLimit or submitMarket returns, each resting order filled
\* by the call has been released exactly once, the incoming order has been
\* released unless it is a limit order that rests, and the in-use count is
\* the one before, plus 1 if the incoming order rests, minus the number of
\* resting orders the call filled.
C22_SubmitSlotAccounting ==
    [][Submitted(lastCall') =>
          LET c      == lastCall'
              filled == {o \in Queued : o \notin Queued'}
              rests  == c.slot \in Queued'
          IN  /\ Range(c.filledOrders) = filled
              /\ Len(c.filledOrders) = Cardinality(filled)
              /\ \A o \in filled :
                    /\ FreeCount(freeSlots, o) = 0
                    /\ FreeCount(freeSlots', o) = 1
              /\ FreeCount(freeSlots, c.slot) = 1
              /\ FreeCount(freeSlots', c.slot) = IF rests THEN 0 ELSE 1
              /\ rests => c.op = "submitLimit"
              /\ size_' = size_ + (IF rests THEN 1 ELSE 0) - Cardinality(filled)
              /\ Len(freeSlots') = Len(freeSlots) - (IF rests THEN 1 ELSE 0)
                                      + Cardinality(filled)]_vars

\* a limit order has filled two resting orders and rests with the rest
C22_Witness ==
    /\ lastCall.op = "submitLimit"
    /\ Len(lastCall.filledOrders) = 2
    /\ lastCall.slot \in Queued
    /\ size_ = 1
    /\ Len(freeSlots) = capacity_ - 1

\* the incoming limit price of call c does not reach the best opposing price
NotCrossing(c) ==
    IF c.side = "Buy" THEN bestAsk # NoPrice /\ c.price < bestAsk
                      ELSE bestBid # NoPrice /\ c.price > bestBid

\* C23: a limit Buy at p trades at no price above p and a limit Sell at p at
\* no price below p; a limit order whose price does not cross the best
\* opposing price returns no trades, leaves the opposite side untouched and
\* rests whole.
C23_LimitPriceBarrier ==
    [][(lastCall'.op = "submitLimit" /\ ~lastCall'.threw) =>
          LET c == lastCall'
          IN  /\ \A k \in DOMAIN c.trades :
                     IF c.side = "Buy" THEN c.trades[k].price <= c.price
                                       ELSE c.trades[k].price >= c.price
              /\ NotCrossing(c) =>
                    /\ c.trades = <<>>
                    /\ IF c.side = "Buy" THEN asks_' = asks_ ELSE bids_' = bids_
                    /\ \A o \in QueuedIn(Opposite(c.side)) : storage'[o] = storage[o]
                    /\ c.slot \in Queued'
                    /\ storage'[c.slot].remaining = c.qty]_vars

\* C24: a limit order is matched until it is filled or no crossing opposing
\* order is left: after a submitLimit whose Buy has quantity left at price p
\* no Sell rests at a price <= p, and after one whose Sell has quantity left
\* at p no Buy rests at a price >= p; such an order is the one that rests.
C24_MatchToExhaustion ==
    [][(lastCall'.op = "submitLimit" /\ ~lastCall'.threw) =>
          LET c == lastCall'
          IN  (c.remaining > 0 \/ c.slot \in Queued') =>
                 /\ c.slot \in Queued'
                 /\ IF c.side = "Buy"
                    THEN \A o \in RestingOn("Sell")' : storage'[o].price > c.price
                    ELSE \A o \in RestingOn("Buy")' : storage'[o].price < c.price]_vars

\* a Sell has traded at exactly its limit price, rests with what was left,
\* and a Buy below its price is still resting
C24_Witness ==
    /\ lastCall.op = "submitLimit"
    /\ lastCall.side = "Sell"
    /\ \E k \in DOMAIN lastCall.trades : lastCall.trades[k].price = lastCall.price
    /\ lastCall.slot \in Queued
    /\ RestingOn("Buy") # {}

\* the queue of the level that holds the resting order r
QueueOf(r) == OwnSide(storage[r].side)[storage[r].price].orders

\* the part of queue q from its element r on
FromOn(q, r) ==
    LET k == CHOOSE i \in DOMAIN q : q[i] = r IN SubSeq(q, k, Len(q))

\* the best price of the side that holds r
BestOwn(r) == IF storage[r].side = "Buy" THEN bestBid ELSE bestAsk

\* the resting order o is filled, wholly or partly, by the step
Touched(o) == o \notin Queued' \/ storage'[o].remaining # storage[o].remaining

\* r rests before and after the step and the step fills a part of it
PartlyFilled(r) ==
    /\ r \in Queued
    /\ r \in Queued'
    /\ storage'[r].remaining < storage[r].remaining

\* C25: a resting order that a submission fills only partly keeps its place:
\* it is at the front of its level afterwards with the orders that were
\* behind it still behind it, its id is still bound to it, its remaining is
\* reduced by exactly the quantity of its trade, its level is still there and
\* is the best price of its side (the side is as before the call when no
\* other order was filled); and an order that has been partly filled is at
\* the front of its level when the next submission comes, which fills it
\* before any order behind it.
C25_PartialFillKeepsPlace ==
    [][Submitted(lastCall') =>
          LET c == lastCall'
          IN  /\ \A r \in Queued : PartlyFilled(r) =>
                    LET last == c.trades[Len(c.trades)]
                    IN  /\ QueueOf(r)' = FromOn(QueueOf(r), r)
                        /\ Head(QueueOf(r)') = r
                        /\ storage[r].id \in DOMAIN orderLookup_'
                        /\ orderLookup_'[storage[r].id] = r
                        /\ RestingId(last, c.side) = storage[r].id
                        /\ last.price = storage[r].price
                        /\ storage'[r].remaining = storage[r].remaining - last.quantity
                        /\ storage'[r].remaining > 0
                        /\ BestOwn(r)' = storage[r].price
                        /\ c.filledOrders = <<>> =>
                              /\ BestOwn(r)' = BestOwn(r)
                              /\ DOMAIN bids_' = DOMAIN bids_
                              /\ DOMAIN asks_' = DOMAIN asks_
                              /\ \A o \in Queued : QueueOf(o)' = QueueOf(o)
              /\ \A r \in Queued : storage[r].remaining < storage[r].quantity =>
                    /\ Head(QueueOf(r)) = r
                    /\ \A o \in Range(QueueOf(r)) : Touched(o) =>
                          /\ Touched(r)
                          /\ o # r => r \notin Queued']_vars

\* sequence q without the element r, the others in their order
Without(q, r) == SelectSeq(q, LAMBDA x : x # r)

\* C26: cancelling one order of a level that holds several leaves the other
\* orders of the level in their relative FIFO order, changes no other level,
\* and leaves the other orders as they were: still queued, and an order
\* that could be cancelled before can be cancelled after, which takes
\* exactly that order out of the level.
C26_CancelKeepsOthers ==
    [][(/\ lastCall'.op = "cancel"
        /\ lastCall'.returned
        /\ lastCall'.slot \in Queued
        /\ Len(QueueOf(lastCall'.slot)) >= 2) =>
          LET r    == lastCall'.slot
              p    == storage[r].price
              own  == OwnSide(storage[r].side)
              own2 == IF storage[r].side = "Buy" THEN bids_' ELSE asks_'
          IN  /\ p \in DOMAIN own2
              /\ own2[p].orders = Without(own[p].orders, r)
              /\ Len(own2[p].orders) = Len(own[p].orders) - 1
              /\ DOMAIN own2 = DOMAIN own
              /\ \A x \in DOMAIN own \ {p} : own2[x] = own[x]
              /\ IF storage[r].side = "Buy" THEN asks_' = asks_ ELSE bids_' = bids_
              /\ \A o \in Range(own[p].orders) \ {r} :
                    /\ storage'[o] = storage[o]
                    /\ o \in Queued'
                    /\ (/\ storage[o].id \in DOMAIN orderLookup_
                        /\ orderLookup_[storage[o].id] = o) =>
                          LET e2   == cancelOrder(Engine', storage[o].id)
                              own3 == IF storage[r].side = "Buy" THEN e2.bids_
                                                                ELSE e2.asks_
                              rest == Without(own2[p].orders, o)
                          IN  /\ storage[o].id \in DOMAIN orderLookup_'
                              /\ orderLookup_'[storage[o].id] = o
                              /\ IF rest = <<>> THEN p \notin DOMAIN own3
                                 ELSE p \in DOMAIN own3 /\ own3[p].orders = rest]_vars

\* the middle one of three orders of a level has been cancelled
C26_Witness ==
    /\ lastCall.op = "cancel"
    /\ lastCall.returned
    /\ \E o1, o2 \in Queued :
          /\ QueueOf(o1) = <<o1, o2>>
          /\ storage[lastCall.slot].side = storage[o1].side
          /\ storage[lastCall.slot].price = storage[o1].price
          /\ storage[o1].timestamp < storage[lastCall.slot].timestamp
          /\ storage[lastCall.slot].timestamp < storage[o2].timestamp

\* the slots in use: those not on the free list
InUse == (DOMAIN storage) \ Range(freeSlots)

\* C27: the pool reuses slots in LIFO order.  A submission acquires the slot
\* on top of the free stack, and the slots it releases go on top in the
\* order of their release, so the next acquire returns the slot released
\* last; while no slot has ever been released the slots are handed out as
\* 0, 1, 2, ...; a slot in use keeps its order, at the same index, until it
\* is released.
C27_PoolLifo ==
    [][/\ Submitted(lastCall') =>
             LET c        == lastCall'
                 top      == freeSlots[Len(freeSlots)]
                 below    == SubSeq(freeSlots, 1, Len(freeSlots) - 1)
                 incoming == IF c.slot \in Queued' THEN <<>> ELSE <<c.slot>>
             IN  /\ c.slot = top
                 /\ freeSlots' = below \o c.filledOrders \o incoming
                 /\ orderCount_ = size_ => c.slot = size_
                 /\ \A o \in InUse \ Range(c.filledOrders) :
                        /\ o \in InUse'
                        /\ storage'[o].id = storage[o].id
                        /\ storage'[o].timestamp = storage[o].timestamp
       /\ ~Submitted(lastCall') =>
             /\ freeSlots' = freeSlots
             /\ \A o \in InUse : storage'[o] = storage[o]]_vars

\* slot 1, released after slot 0, has been acquired again and holds a
\* resting order while slot 0 is still free
C27_Witness ==
    /\ Submitted(lastCall)
    /\ lastCall.slot = 1
    /\ lastCall.slot \in Queued
    /\ 0 \in Range(freeSlots)
    /\ freeSlots[Len(freeSlots)] = 0

\* C28: no slot is released twice without an acquire in between: the free
\* list never holds an index twice, holds only indices of the pool, and the
\* in-use count never underflows (it is the capacity minus the free slots).
C28_NoDoubleRelease ==
    /\ \A i, j \in DOMAIN freeSlots : i # j => freeSlots[i] # freeSlots[j]
    /\ Range(freeSlots) \subseteq DOMAIN storage
    /\ size_ >= 0
    /\ size_ = capacity_ - Len(freeSlots)

\* three submissions have filled two resting orders and every slot is free
\* again
C28_Witness ==
    /\ Submitted(lastCall)
    /\ Len(lastCall.filledOrders) = 2
    /\ lastCall.slot \in Range(freeSlots)
    /\ orderCount_ = 3
    /\ Len(freeSlots) = 3
    /\ size_ = 0

\* C29: every order the book refers to, from a level queue or from the id
\* map, is in a slot that is acquired: its index is not on the free list and
\* the slot holds a live order; so the slot a submission acquires is never
\* one the book refers to.
C29_NoDanglingReference ==
    [][/\ (Queued' \cup Bound') \cap Range(freeSlots') = {}
       /\ \A o \in Queued' \cup Bound' : storage'[o] # NoOrder
       /\ Submitted(lastCall') => lastCall'.slot \notin Queued \cup Bound]_vars

\* a slot released by an earlier call has been acquired again, for an order
\* that now rests beside another one
C29_Witness ==
    /\ Submitted(lastCall)
    /\ orderCount_ = 3
    /\ size_ = 2
    /\ lastCall.slot \in Queued
    /\ Cardinality(Queued) = 2
    /\ Bound \subseteq Queued

\* C30: within one submission no resting order id is in two of the returned
\* trades, every trade but possibly the last fills its resting order
\* completely, at most one resting order is left partly filled, and there
\* are at most as many trades as opposing orders rested before the call.
C30_OneTradePerRestingOrder ==
    [][Submitted(lastCall') =>
          LET c == lastCall'
              n == Len(c.trades)
          IN  /\ \A i, j \in 1 .. n :
                     i # j => RestingId(c.trades[i], c.side) # RestingId(c.trades[j], c.side)
              /\ Len(c.filledOrders) \in {n - 1, n}
              /\ \A k \in 1 .. Len(c.filledOrders) :
                     /\ c.filledOrders[k] \in QueuedIn(Opposite(c.side))
                     /\ storage[c.filledOrders[k]].id = RestingId(c.trades[k], c.side)
                     /\ storage[c.filledOrders[k]].remaining = c.trades[k].quantity
              /\ Cardinality({r \in Queued : PartlyFilled(r)}) <= 1
              /\ Cardinality({r \in Queued : PartlyFilled(r)}) = n - Len(c.filledOrders)
              /\ n <= Cardinality(QueuedIn(Opposite(c.side)))]_vars

\* the binding of the resting order o: what the lookup of its id yields
BindingOf(lookup, o) ==
    IF storage[o].id \in DOMAIN lookup THEN <<lookup[storage[o].id]>> ELSE <<>>

\* the place of the resting order o in the queue q
PositionIn(q, o) == CHOOSE i \in DOMAIN q : q[i] = o

\* the submission leaves a limit residual, which is rested
LimitResidual(c) == c.op = "submitLimit" /\ c.remaining > 0

\* C31: a submitLimit or submitMarket on side S leaves every order that
\* rests on side S as it was: the same level, the same place in its queue,
\* the same remaining and the same binding of its id; the levels of side S
\* are as before, but for a limit residual, which is appended at the tail of
\* the level at its price (the level is created when absent) and so queues
\* behind every earlier order at that price.
C31_OwnSideFrame ==
    [][Submitted(lastCall') =>
          LET c    == lastCall'
              own  == OwnSide(c.side)
              own2 == IF c.side = "Buy" THEN bids_' ELSE asks_'
              old  == IF c.price \in DOMAIN own THEN own[c.price].orders ELSE <<>>
          IN  /\ \A o \in QueuedIn(own) :
                    LET p == storage[o].price
                    IN  /\ storage'[o] = storage[o]
                        /\ p \in DOMAIN own2
                        /\ o \in Range(own2[p].orders)
                        /\ PositionIn(own2[p].orders, o) = PositionIn(own[p].orders, o)
                        /\ BindingOf(orderLookup_', o) = BindingOf(orderLookup_, o)
              /\ IF LimitResidual(c)
                 THEN /\ DOMAIN own2 = DOMAIN own \cup {c.price}
                      /\ \A x \in DOMAIN own \ {c.price} : own2[x] = own[x]
                      /\ own2[c.price].orders = Append(old, c.slot)
                      /\ \A o \in Range(old) :
                            PositionIn(own2[c.price].orders, o)
                                < PositionIn(own2[c.price].orders, c.slot)
                 ELSE own2 = own]_vars

====
